---- MODULE Spec2Model ----
(***************************************************************************)
(* Model of polish_trains_gtfs.realtime: the schedule index built by       *)
(* Schedules.load_from_gtfs (schedules.py), the fact containers of fact.py *)
(* with the alert and delay facts (alerts.py, delays.py, tools.py), and    *)
(* the publication run of app.py.                                          *)
(*                                                                         *)
(* Text is a sequence of one-character strings, so that the regular        *)
(* expressions and the string formatting of the code are computed and not  *)
(* assumed.  A calendar date is a record [year, month, day].               *)
(***************************************************************************)
EXTENDS Integers, Sequences, FiniteSets, TLC

VARIABLES
    pc,                     \* position inside Schedules.load_from_gtfs
    feed_info,              \* rows of feed_info.txt
    calendar_rows,          \* rows of calendar_dates.txt read so far
    trips_rows,             \* rows of trips.txt read so far
    stop_times_rows,        \* rows of stop_times.txt read so far
    valid_operating_dates,  \* local of load_from_gtfs
    services,               \* local of load_from_gtfs: service_id -> list of DatePair
    by_order,               \* local of load_from_gtfs: OrderKey -> Trips
    trip_id_to_keys,        \* local of load_from_gtfs: trip_id -> list of TripKeyPair
    schedules,              \* the value load_from_gtfs returns, None before
    probe,                  \* a date tried against valid_operating_dates
    mpc,                    \* position inside main of app.py
    args,                   \* Args.parse(argv)
    environ,                \* os.environ and the file PKP_PLK_APIKEY_FILE names
    apikey,                 \* local of main
    alerts_response,        \* r.json() inside fetch_alerts
    delays_response,        \* r.json() inside fetch_delays
    alerts,                 \* the container fetch_alerts returned
    delays,                 \* the container fetch_delays returned
    facts,                  \* local of main: the merged container
    upc,                    \* position inside update_file of app.py
    fs                      \* the file system: path -> content

loader_vars == <<pc, feed_info, calendar_rows, trips_rows, stop_times_rows,
                 valid_operating_dates, services, by_order, trip_id_to_keys,
                 schedules, probe>>

main_vars == <<mpc, args, environ, apikey, alerts_response, delays_response, alerts,
               delays, facts, upc, fs>>

vars == <<loader_vars, main_vars>>

\* Python's None, and a value that is present
None == <<>>
Some(x) == <<x>>

EmptyDict == <<>>

(***************************************************************************)
(* Bounds of the model.                                                    *)
(***************************************************************************)
MaxCalendarRows == 2
MaxTripRows == 2
MaxStopTimeRows == 2

(***************************************************************************)
(* Text helpers.                                                           *)
(***************************************************************************)
Digits == {"0", "1", "2", "3", "4", "5", "6", "7", "8", "9"}

DigitVal(c) ==
    CASE c = "0" -> 0 [] c = "1" -> 1 [] c = "2" -> 2 [] c = "3" -> 3
      [] c = "4" -> 4 [] c = "5" -> 5 [] c = "6" -> 6 [] c = "7" -> 7
      [] c = "8" -> 8 [] c = "9" -> 9

DigitChar(n) ==
    CASE n = 0 -> "0" [] n = 1 -> "1" [] n = 2 -> "2" [] n = 3 -> "3"
      [] n = 4 -> "4" [] n = 5 -> "5" [] n = 6 -> "6" [] n = 7 -> "7"
      [] n = 8 -> "8" [] n = 9 -> "9"

AllDigits(s, i, j) == \A k \in i..j : s[k] \in Digits

RECURSIVE DecimalValue(_)
\* int() of a non-empty run of decimal digits (leading zeros allowed)
DecimalValue(s) ==
    IF s = <<>> THEN 0
    ELSE 10 * DecimalValue(SubSeq(s, 1, Len(s) - 1)) + DigitVal(s[Len(s)])

\* the texts int() accepts: an optional sign, then digits
IsInt(s) ==
    \/ Len(s) >= 1 /\ AllDigits(s, 1, Len(s))
    \/ Len(s) >= 2 /\ s[1] \in {"+", "-"} /\ AllDigits(s, 2, Len(s))

\* int() of such a text
ParseInt(s) ==
    IF s[1] = "-" THEN 0 - DecimalValue(SubSeq(s, 2, Len(s)))
    ELSE IF s[1] = "+" THEN DecimalValue(SubSeq(s, 2, Len(s)))
    ELSE DecimalValue(s)

(***************************************************************************)
(* Calendar dates: impuls.model.Date as used by schedules.py.              *)
(***************************************************************************)
IsLeap(y) == (y % 4 = 0 /\ y % 100 # 0) \/ y % 400 = 0

DaysInMonth(y, m) ==
    IF m = 2 THEN (IF IsLeap(y) THEN 29 ELSE 28)
    ELSE IF m \in {4, 6, 9, 11} THEN 30 ELSE 31

MkDate(y, m, d) == [year |-> y, month |-> m, day |-> d]

\* Date.from_ymd_str: "YYYYMMDD"
from_ymd_str(s) ==
    MkDate(DecimalValue(SubSeq(s, 1, 4)), DecimalValue(SubSeq(s, 5, 6)),
           DecimalValue(SubSeq(s, 7, 8)))

NextDay(d) ==
    IF d.day < DaysInMonth(d.year, d.month) THEN MkDate(d.year, d.month, d.day + 1)
    ELSE IF d.month < 12 THEN MkDate(d.year, d.month + 1, 1)
    ELSE MkDate(d.year + 1, 1, 1)

PrevDay(d) ==
    IF d.day > 1 THEN MkDate(d.year, d.month, d.day - 1)
    ELSE IF d.month > 1 THEN MkDate(d.year, d.month - 1, DaysInMonth(d.year, d.month - 1))
    ELSE MkDate(d.year - 1, 12, 31)

RECURSIVE add_days(_, _)
\* Date.add_days
add_days(d, n) ==
    IF n = 0 THEN d
    ELSE IF n > 0 THEN add_days(NextDay(d), n - 1)
    ELSE add_days(PrevDay(d), n + 1)

\* Date ordering: year, then month, then day
DateLE(a, b) ==
    \/ a.year < b.year
    \/ a.year = b.year /\ a.month < b.month
    \/ a.year = b.year /\ a.month = b.month /\ a.day <= b.day

BoundedDateRange(start, end) == [start |-> start, end |-> end]

\* BoundedDateRange.__contains__: both ends belong to the range
InRange(d, range) == DateLE(range.start, d) /\ DateLE(d, range.end)

(***************************************************************************)
(* schedules.py: the identifier codec.                                     *)
(***************************************************************************)
\* `$` of re: the end of the text, or just before a final newline
AtEnd(s, k) == k = Len(s) + 1 \/ (k = Len(s) /\ s[k] = "\n")

\* r"([+-][0-9]+)D$" matches from position i with its digits ending at j
OffsetMatch(s, i, j) ==
    /\ s[i] \in {"+", "-"}
    /\ j >= i + 1
    /\ AllDigits(s, i + 1, j)
    /\ j + 1 <= Len(s)
    /\ s[j + 1] = "D"
    /\ AtEnd(s, j + 2)

OffsetMatches(s) ==
    {m \in (1..Len(s)) \X (1..Len(s)) : OffsetMatch(s, m[1], m[2])}

\* the offset without its sign
_extract_start_date_offset_unsigned(service_id) ==
    IF OffsetMatches(service_id) # {}
    THEN LET m == CHOOSE m \in OffsetMatches(service_id) :
                      \A o \in OffsetMatches(service_id) : m[1] <= o[1]
         IN  DecimalValue(SubSeq(service_id, m[1] + 1, m[2]))
    ELSE 0

_extract_start_date_offset(service_id) ==
    IF OffsetMatches(service_id) # {}
    THEN LET m == CHOOSE m \in OffsetMatches(service_id) :
                      \A o \in OffsetMatches(service_id) : m[1] <= o[1]
         IN  ParseInt(SubSeq(service_id, m[1], m[2]))
    ELSE 0

\* r"^([0-9]+)_([0-9]+)": the greedy runs of digits around the first "_"
LeadingDigits(s, from) ==
    LET ends == {j \in from..Len(s) : AllDigits(s, from, j)}
    IN  IF ends = {} THEN from - 1
        ELSE CHOOSE j \in ends : \A k \in ends : k <= j

\* the pair (None, None)
NoIds == <<>>

\* r"([0-9]+)_([0-9]+)" matched at the start of a text
MatchIds(text) ==
    LET a == LeadingDigits(text, 1)
        b == LeadingDigits(text, a + 2)
    IN  IF a >= 1 /\ a + 1 <= Len(text) /\ text[a + 1] = "_" /\ b >= a + 2
        THEN <<DecimalValue(SubSeq(text, 1, a)),
               DecimalValue(SubSeq(text, a + 2, b))>>
        ELSE NoIds

\* the search without its "^": the first match anywhere in the trip_id
_extract_schedule_order_ids_unanchored(trip_id) ==
    LET starts == {k \in 1..Len(trip_id) :
                      MatchIds(SubSeq(trip_id, k, Len(trip_id))) # NoIds}
    IN  IF starts = {} THEN NoIds
        ELSE MatchIds(SubSeq(trip_id, CHOOSE k \in starts : \A o \in starts : k <= o,
                             Len(trip_id)))

_extract_schedule_order_ids(trip_id) == MatchIds(trip_id)

(***************************************************************************)
(* schedules.py: the records of the index.                                 *)
(***************************************************************************)
OrderKey(schedule_id, order_id, operating_date) ==
    [schedule_id |-> schedule_id, order_id |-> order_id,
     operating_date |-> operating_date]

TripDate(trip_id, start_date) == [trip_id |-> trip_id, start_date |-> start_date]

StopTime(trip, stop_sequence, stop_id) ==
    [trip |-> trip, stop_sequence |-> stop_sequence, stop_id |-> stop_id]

Trips(all, by_order_number) == [all |-> all, by_order_number |-> by_order_number]

DatePair(operating_date, start_date) ==
    [operating_date |-> operating_date, start_date |-> start_date]

TripKeyPair(gtfs, live) == [gtfs |-> gtfs, live |-> live]

Schedules(b, v) == [by_order |-> b, valid_operating_dates |-> v]

\* dict.get(key, default) and dict[key] = value
Get(dict, key, default) == IF key \in DOMAIN dict THEN dict[key] ELSE default

Put(dict, key, value) ==
    [k \in DOMAIN dict \cup {key} |-> IF k = key THEN value ELSE dict[k]]

(***************************************************************************)
(* The archives the model reads: rows are drawn from these pools.          *)
(***************************************************************************)
D0530 == <<"2", "0", "2", "5", "0", "5", "3", "0">>
D0531 == <<"2", "0", "2", "5", "0", "5", "3", "1">>
D0601 == <<"2", "0", "2", "5", "0", "6", "0", "1">>
D0602 == <<"2", "0", "2", "5", "0", "6", "0", "2">>
D0630 == <<"2", "0", "2", "5", "0", "6", "3", "0">>
D0701 == <<"2", "0", "2", "5", "0", "7", "0", "1">>
D0101 == <<"2", "0", "2", "5", "0", "1", "0", "1">>
D0301 == <<"2", "0", "2", "4", "0", "3", "0", "1">>

SvcPlain == <<"S">>
SvcMinus == <<"S", "-", "1", "D">>
SvcPlus == <<"S", "+", "1", "D">>

TripRail == <<"1", "_", "2">>
TripBus == <<"1", "_", "2", "_", "1">>
TripOther == <<"0", "3", "_", "4">>
TripMalformed == <<"x", "1", "_", "2">>
TripUnknown == <<"9", "_", "9">>

FeedRow(start, end) == [feed_start_date |-> start, feed_end_date |-> end]
CalendarRow(service_id, date) == [service_id |-> service_id, date |-> date]
TripRow(trip_id, service_id) == [trip_id |-> trip_id, service_id |-> service_id]
StopTimeRow(trip_id, stop_sequence, stop_id, plk_order) ==
    [trip_id |-> trip_id, stop_sequence |-> stop_sequence, stop_id |-> stop_id,
     plk_order |-> plk_order]

\* feed_info.txt of the index build: 2025-06-01 .. 2025-06-01
FeedFiles == {<<FeedRow(D0601, D0601)>>}

\* feed_info.txt of the date-range check: no row, one row, or two rows
FeedRangeRows ==
    {FeedRow(s, e) : s \in {D0601, D0101, D0301}, e \in {D0601, D0630, D0530}}
FeedRangeFiles ==
    {<<>>} \cup {<<r>> : r \in FeedRangeRows}
           \cup {<<r, FeedRow(D0602, D0701)>> : r \in FeedRangeRows}

ProbeDates ==
    {MkDate(2025, 5, 30), MkDate(2025, 5, 31), MkDate(2025, 6, 1), MkDate(2025, 6, 2),
     MkDate(2025, 6, 30), MkDate(2025, 7, 1), MkDate(2024, 12, 30), MkDate(2024, 12, 31),
     MkDate(2024, 2, 28), MkDate(2024, 2, 29), MkDate(2024, 3, 1)}

\* with the range 2025-05-31 .. 2025-06-01: four rows within it (operating dates
\* 05-31, 06-01, 06-01, 05-31), then one after it (06-02) and one before it (05-30)
CalendarPool ==
    {CalendarRow(SvcPlain, D0531), CalendarRow(SvcPlain, D0601),
     CalendarRow(SvcMinus, D0531), CalendarRow(SvcPlus, D0601),
     CalendarRow(SvcMinus, D0601), CalendarRow(SvcPlus, D0531)}

\* the calendar of the stop-time check: one date of each of two services
CalendarPoolSmall ==
    {CalendarRow(SvcPlain, D0601), CalendarRow(SvcMinus, D0531)}

TripPool ==
    {TripRow(TripRail, SvcPlain), TripRow(TripBus, SvcMinus),
     TripRow(TripOther, SvcPlus), TripRow(TripMalformed, SvcPlain)}

\* the stop times of the trip-registration check
StopTimePoolSmall ==
    {StopTimeRow(TripRail, <<"1">>, <<"A">>, <<"1">>),
     StopTimeRow(TripUnknown, <<"x">>, <<"D">>, <<>>)}

StopTimePool ==
    {StopTimeRow(TripRail, <<"1">>, <<"A">>, <<"1">>),
     StopTimeRow(TripBus, <<"2">>, <<"B">>, <<"0", "1">>),
     StopTimeRow(TripRail, <<"3">>, <<"C">>, <<"2">>),
     StopTimeRow(TripOther, <<"4">>, <<"E">>, <<"x">>),
     StopTimeRow(TripUnknown, <<"x">>, <<"D">>, <<>>)}

(***************************************************************************)
(* The inputs of a run of main: the answers of the operator's API, the     *)
(* command line, the environment and the files already on disk.            *)
(***************************************************************************)
MaxAlerts == 1
MaxDelays == 2

OdMidnight == <<"2", "0", "2", "5", "-", "0", "6", "-", "0", "1", "T", "0", "0", ":", "0", "0">>
OdNoon == <<"2", "0", "2", "5", "-", "0", "6", "-", "0", "1", "T", "1", "2", ":", "0", "0">>
OdNextDay == <<"2", "0", "2", "5", "-", "0", "6", "-", "0", "2">>

JourneyRef(sid, od) == [sid |-> sid, od |-> od]

AlertRecord(id, tt, msg, ar) == [id |-> id, tt |-> tt, msg |-> msg, ar |-> ar]

StopRecord(id, psn, cn, cf, aa, ad) ==
    [id |-> id, psn |-> psn, cn |-> cn, cf |-> cf, aa |-> aa, ad |-> ad]

DelayRecord(sid, oid, od, st) == [sid |-> sid, oid |-> oid, od |-> od, st |-> st]

\* disruptions, each with its own id
AlertPool ==
    {AlertRecord(42, Some("Awaria"), None, <<>>),
     AlertRecord(8, None, Some("Objazd"), <<JourneyRef(42, OdNoon)>>),
     AlertRecord(7, Some(""), Some("Opoznienie"), <<JourneyRef(7, OdNextDay)>>)}

\* trains, each with its own (sid, oid, od): two orders of schedule 42 on one day,
\* and two orders of schedule 7, the second with a stop that has no times
DelayPool ==
    {DelayRecord(42, 1, OdMidnight, <<StopRecord(5, 1, None, Some(TRUE), Some(10), Some(11))>>),
     DelayRecord(42, 2, OdMidnight, <<>>),
     DelayRecord(7, 1, OdNextDay, <<StopRecord(5, 1, Some(TRUE), None, Some(10), Some(11))>>),
     DelayRecord(7, 2, OdMidnight, <<StopRecord(6, 2, Some(TRUE), None, None, None)>>)}

RECURSIVE SeqsUpTo(_, _)
\* the sequences of at most n elements of a set, no element taken twice
SeqsUpTo(S, n) ==
    IF n = 0 THEN {<<>>}
    ELSE SeqsUpTo(S, n - 1) \cup
         {Append(p[1], p[2]) :
             p \in {p \in SeqsUpTo(S, n - 1) \X S :
                       /\ Len(p[1]) = n - 1
                       /\ \A i \in 1..Len(p[1]) : p[1][i] # p[2]}}

Timestamps == {1, 2}

AlertResponses == [ts : Timestamps, ds : SeqsUpTo(AlertPool, MaxAlerts)]

DelayResponses ==
    [ts : Timestamps, pg : [hn : {None, Some(FALSE), Some(TRUE)}],
     tr : SeqsUpTo(DelayPool, MaxDelays)]

ArgsPool ==
    {[output |-> <<"polish_trains", ".pb">>, human_readable |-> FALSE, json |-> FALSE],
     [output |-> <<"polish_trains", ".pb">>, human_readable |-> TRUE, json |-> TRUE],
     [output |-> <<"feed">>, human_readable |-> FALSE, json |-> TRUE]}

Environ(key, path, content) ==
    [PKP_PLK_APIKEY |-> key, PKP_PLK_APIKEY_FILE |-> path, file_content |-> content]

EnvironPool ==
    {Environ(None, None, <<>>),
     Environ(Some(<<"k", "\n">>), None, <<>>),
     Environ(Some(<<>>), Some(<<"p">>), <<" ", "k">>),
     Environ(None, Some(<<"p">>), <<>>)}

(***************************************************************************)
(* schedules.py: Schedules.load_from_gtfs and its four passes.             *)
(***************************************************************************)
\* the range that starts on the declared first day
_load_feed_dates_from_first_day(row) ==
    BoundedDateRange(from_ymd_str(row.feed_start_date), from_ymd_str(row.feed_end_date))

\* _load_feed_dates on the first row of feed_info.txt
_load_feed_dates(row) ==
    BoundedDateRange(add_days(from_ymd_str(row.feed_start_date), -1),
                     from_ymd_str(row.feed_end_date))

\* the iteration without its test of the range
ServicesAfterRow_unfiltered(svcs, row, range) ==
    LET start_date == from_ymd_str(row.date)
        operating_date ==
            add_days(start_date, 0 - _extract_start_date_offset(row.service_id))
    IN  Put(svcs, row.service_id,
            Append(Get(svcs, row.service_id, <<>>), DatePair(operating_date, start_date)))

\* one iteration of the loop of _load_services
ServicesAfterRow(svcs, row, range) ==
    LET service_id == row.service_id
        start_date_offset == _extract_start_date_offset(service_id)
        start_date == from_ymd_str(row.date)
        operating_date == add_days(start_date, 0 - start_date_offset)
    IN  IF InRange(operating_date, range)
        THEN Put(svcs, service_id,
                 Append(Get(svcs, service_id, <<>>), DatePair(operating_date, start_date)))
        ELSE svcs

\* the registration that replaces the aggregate of a key already present
RegisterTrip_replacing(index, trip_id, ids, pair) ==
    LET key == OrderKey(ids[1], ids[2], pair.operating_date)
        trip_date == TripDate(trip_id, pair.start_date)
    IN  [by_order |-> Put(index.by_order, key, Trips(<<trip_date>>, EmptyDict)),
         trip_id_to_keys |->
            Put(index.trip_id_to_keys, trip_id,
                Append(Get(index.trip_id_to_keys, trip_id, <<>>),
                       TripKeyPair(trip_date, key)))]

\* the registration of one (operating_date, start_date) pair of a trips.txt row
RegisterTrip(index, trip_id, ids, pair) ==
    LET key == OrderKey(ids[1], ids[2], pair.operating_date)
        trip_date == TripDate(trip_id, pair.start_date)
    IN  [by_order |->
            IF key \in DOMAIN index.by_order
            THEN Put(index.by_order, key,
                     Trips(Append(index.by_order[key].all, trip_date),
                           index.by_order[key].by_order_number))
            ELSE Put(index.by_order, key, Trips(<<trip_date>>, EmptyDict)),
         trip_id_to_keys |->
            Put(index.trip_id_to_keys, trip_id,
                Append(Get(index.trip_id_to_keys, trip_id, <<>>),
                       TripKeyPair(trip_date, key)))]

RECURSIVE RegisterTrips(_, _, _, _)
\* the inner loop of _load_trips over the date pairs of the row's service
RegisterTrips(index, trip_id, ids, pairs) ==
    IF pairs = <<>> THEN index
    ELSE RegisterTrips(RegisterTrip(index, trip_id, ids, Head(pairs)),
                       trip_id, ids, Tail(pairs))

\* the assignment that keeps a stop time already stored under the order number
RegisterStopTime_keeping(index, row, pair) ==
    IF ParseInt(row.plk_order) \in DOMAIN index[pair.live].by_order_number
    THEN index
    ELSE Put(index, pair.live,
             Trips(index[pair.live].all,
                   Put(index[pair.live].by_order_number, ParseInt(row.plk_order),
                       StopTime(pair.gtfs, ParseInt(row.stop_sequence), row.stop_id))))

\* the assignment that dates the stop time's trip by the key's operating day
RegisterStopTime_operating_day(index, row, pair) ==
    Put(index, pair.live,
        Trips(index[pair.live].all,
              Put(index[pair.live].by_order_number, ParseInt(row.plk_order),
                  StopTime(TripDate(pair.gtfs.trip_id, pair.live.operating_date),
                           ParseInt(row.stop_sequence), row.stop_id))))

\* the assignment of one stop_times.txt row for one (trip_date, key) pair
RegisterStopTime(index, row, pair) ==
    Put(index, pair.live,
        Trips(index[pair.live].all,
              Put(index[pair.live].by_order_number, ParseInt(row.plk_order),
                  StopTime(pair.gtfs, ParseInt(row.stop_sequence), row.stop_id))))

RECURSIVE RegisterStopTimes(_, _, _)
\* the inner loop of _load_stop_times over the pairs of the row's trip_id
RegisterStopTimes(index, row, pairs) ==
    IF pairs = <<>> THEN index
    ELSE RegisterStopTimes(RegisterStopTime(index, row, Head(pairs)), row, Tail(pairs))

\* load_from_gtfs opens the archive and reads feed_info.txt
LoadFeedDates ==
    /\ pc = "feed_info"
    /\ IF feed_info = <<>>
       THEN /\ pc' = "failed"
            /\ valid_operating_dates' = valid_operating_dates
       ELSE /\ pc' = "calendar_dates"
            /\ valid_operating_dates' = Some(_load_feed_dates(feed_info[1]))
    /\ UNCHANGED <<feed_info, calendar_rows, trips_rows, stop_times_rows, services,
                   by_order, trip_id_to_keys, schedules, probe,
                   main_vars>>

\* _load_services reads one more row of calendar_dates.txt
LoadServicesRow(pool) ==
    /\ pc = "calendar_dates"
    /\ Len(calendar_rows) < MaxCalendarRows
    /\ \E row \in pool :
          /\ calendar_rows' = Append(calendar_rows, row)
          /\ services' = ServicesAfterRow(services, row, valid_operating_dates[1])
    /\ UNCHANGED <<pc, feed_info, trips_rows, stop_times_rows, valid_operating_dates,
                   by_order, trip_id_to_keys, schedules, probe,
                   main_vars>>

\* calendar_dates.txt is exhausted: _load_services returns
LoadServicesEnd ==
    /\ pc = "calendar_dates"
    /\ pc' = "trips"
    /\ UNCHANGED <<feed_info, calendar_rows, trips_rows, stop_times_rows,
                   valid_operating_dates, services, by_order, trip_id_to_keys,
                   schedules, probe,
                   main_vars>>

\* _load_trips reads one more row of trips.txt
LoadTripsRow ==
    /\ pc = "trips"
    /\ Len(trips_rows) < MaxTripRows
    /\ \E row \in TripPool :
          LET ids == _extract_schedule_order_ids(row.trip_id)
              index == RegisterTrips(
                           [by_order |-> by_order, trip_id_to_keys |-> trip_id_to_keys],
                           row.trip_id, ids, Get(services, row.service_id, <<>>))
          IN  /\ trips_rows' = Append(trips_rows, row)
              /\ IF ids = NoIds
                 THEN /\ pc' = "failed"
                      /\ UNCHANGED <<by_order, trip_id_to_keys>>
                 ELSE /\ pc' = pc
                      /\ by_order' = index.by_order
                      /\ trip_id_to_keys' = index.trip_id_to_keys
    /\ UNCHANGED <<feed_info, calendar_rows, stop_times_rows, valid_operating_dates,
                   services, schedules, probe,
                   main_vars>>

\* trips.txt is exhausted: _load_trips returns
LoadTripsEnd ==
    /\ pc = "trips"
    /\ pc' = "stop_times"
    /\ UNCHANGED <<feed_info, calendar_rows, trips_rows, stop_times_rows,
                   valid_operating_dates, services, by_order, trip_id_to_keys,
                   schedules, probe,
                   main_vars>>

\* _load_stop_times reads one more row of stop_times.txt
LoadStopTimesRow(pool) ==
    /\ pc = "stop_times"
    /\ Len(stop_times_rows) < MaxStopTimeRows
    /\ \E row \in pool :
          LET pairs == Get(trip_id_to_keys, row.trip_id, <<>>)
          IN  /\ stop_times_rows' = Append(stop_times_rows, row)
              /\ IF pairs # <<>> /\ ~(IsInt(row.stop_sequence) /\ IsInt(row.plk_order))
                 THEN /\ pc' = "failed"
                      /\ by_order' = by_order
                 ELSE /\ pc' = pc
                      /\ by_order' = RegisterStopTimes(by_order, row, pairs)
    /\ UNCHANGED <<feed_info, calendar_rows, trips_rows, valid_operating_dates,
                   services, trip_id_to_keys, schedules, probe,
                   main_vars>>

\* stop_times.txt is exhausted: load_from_gtfs returns cls(by_order, valid_operating_dates)
LoadStopTimesEnd ==
    /\ pc = "stop_times"
    /\ pc' = "done"
    /\ schedules' = Some(Schedules(by_order, valid_operating_dates[1]))
    /\ UNCHANGED <<feed_info, calendar_rows, trips_rows, stop_times_rows,
                   valid_operating_dates, services, by_order, trip_id_to_keys, probe,
                   main_vars>>

\* `date in valid_operating_dates` on the loaded range
Contains ==
    /\ pc = "calendar_dates"
    /\ \E d \in ProbeDates :
          probe' = Some([date |-> d, admitted |-> InRange(d, valid_operating_dates[1])])
    /\ UNCHANGED <<pc, feed_info, calendar_rows, trips_rows, stop_times_rows,
                   valid_operating_dates, services, by_order, trip_id_to_keys, schedules,
                   main_vars>>

(***************************************************************************)
(* tools.py: TripDate as the realtime side uses it (trip_id is the         *)
(* operator's schedule id), with the text conversions of datetime.date.    *)
(***************************************************************************)
RECURSIVE IntToText(_)
\* str() of a non-negative int
IntToText(n) ==
    IF n < 10 THEN <<DigitChar(n)>>
    ELSE IntToText(n \div 10) \o <<DigitChar(n % 10)>>

RECURSIVE ZeroPad(_, _)
\* a text padded with zeros on the left to the given width
ZeroPad(text, width) ==
    IF Len(text) >= width THEN text ELSE ZeroPad(<<"0">> \o text, width)

\* text[:n]
Take(text, n) == SubSeq(text, 1, IF Len(text) < n THEN Len(text) ELSE n)

\* the texts date.fromisoformat accepts in the form YYYY-MM-DD
IsIsoDate(text) ==
    /\ Len(text) = 10
    /\ AllDigits(text, 1, 4) /\ text[5] = "-"
    /\ AllDigits(text, 6, 7) /\ text[8] = "-"
    /\ AllDigits(text, 9, 10)
    /\ DecimalValue(SubSeq(text, 1, 4)) >= 1
    /\ DecimalValue(SubSeq(text, 6, 7)) \in 1..12
    /\ DecimalValue(SubSeq(text, 9, 10)) \in
          1..DaysInMonth(DecimalValue(SubSeq(text, 1, 4)), DecimalValue(SubSeq(text, 6, 7)))

\* date.fromisoformat
fromisoformat(text) ==
    MkDate(DecimalValue(SubSeq(text, 1, 4)), DecimalValue(SubSeq(text, 6, 7)),
           DecimalValue(SubSeq(text, 9, 10)))

\* date.isoformat
isoformat(d) ==
    ZeroPad(IntToText(d.year), 4) \o <<"-">> \o ZeroPad(IntToText(d.month), 2)
        \o <<"-">> \o ZeroPad(IntToText(d.day), 2)

\* date.strftime("%Y%m%d")
strftime_ymd(d) ==
    ZeroPad(IntToText(d.year), 4) \o ZeroPad(IntToText(d.month), 2)
        \o ZeroPad(IntToText(d.day), 2)

\* TripDate.parse
TripDate_parse(schedule_id, operating_date) ==
    TripDate(schedule_id, fromisoformat(Take(operating_date, 10)))

\* whether TripDate.parse returns (date.fromisoformat raises ValueError otherwise)
TripDate_parses(ref) == IsIsoDate(Take(ref.od, 10))

TripDate_as_json(t) ==
    [trip_id |-> IntToText(t.trip_id), start_date |-> isoformat(t.start_date)]

TripDate_as_gtfs_rt(t) ==
    [trip_id |-> IntToText(t.trip_id), schedule_relationship |-> "SCHEDULED",
     start_date |-> strftime_ymd(t.start_date)]

\* `x or default` on a JSON value that may be null
OrElse(x, default) == IF x = None \/ x[1] = default THEN default ELSE x[1]

(***************************************************************************)
(* alerts.py                                                               *)
(***************************************************************************)
Alert(id, title, description, trips) ==
    [class |-> "Alert", id |-> id, title |-> title, description |-> description,
     trips |-> trips]

parse_alert(d) ==
    Alert(d.id, OrElse(d.tt, ""), OrElse(d.msg, ""),
          [i \in 1..Len(d.ar) |-> TripDate_parse(d.ar[i].sid, d.ar[i].od)])

alert_parses(d) == \A i \in 1..Len(d.ar) : TripDate_parses(d.ar[i])

Alert_as_json(a) ==
    [type |-> "alert", id |-> <<"A", "_">> \o IntToText(a.id), title |-> a.title,
     description |-> a.description,
     trips |-> [i \in 1..Len(a.trips) |-> TripDate_as_json(a.trips[i])]]

Alert_as_gtfs_rt(a) ==
    [id |-> <<"A", "_">> \o IntToText(a.id),
     alert |-> [header_text |-> a.title, description_text |-> a.description,
                informed_entity |->
                    [i \in 1..Len(a.trips) |-> [trip |-> TripDate_as_gtfs_rt(a.trips[i])]]]]

(***************************************************************************)
(* delays.py                                                               *)
(***************************************************************************)
StopDelay(stop_id, stop_sequence, cancelled, confirmed, live_arrival, live_departure) ==
    [stop_id |-> stop_id, stop_sequence |-> stop_sequence, cancelled |-> cancelled,
     confirmed |-> confirmed, live_arrival |-> live_arrival,
     live_departure |-> live_departure]

\* datetime.fromisoformat raises on a null "aa" or "ad"
stop_delay_parses(s) == s.aa # None /\ s.ad # None

parse_stop_delay(s) ==
    StopDelay(s.id, s.psn, OrElse(s.cn, FALSE), OrElse(s.cf, FALSE), s.aa[1], s.ad[1])

StopDelay_as_json(s) ==
    IF s.cancelled
    THEN [stop_id |-> IntToText(s.stop_id), stop_sequence |-> s.stop_sequence,
          confirmed |-> s.confirmed, cancelled |-> TRUE]
    ELSE [stop_id |-> IntToText(s.stop_id), stop_sequence |-> s.stop_sequence,
          confirmed |-> s.confirmed, cancelled |-> FALSE,
          arrival |-> s.live_arrival, departure |-> s.live_departure]

StopDelay_as_gtfs_rt(s) ==
    IF s.cancelled
    THEN [stop_sequence |-> s.stop_sequence, stop_id |-> IntToText(s.stop_id),
          schedule_relationship |-> "SKIPPED"]
    ELSE [stop_sequence |-> s.stop_sequence, stop_id |-> IntToText(s.stop_id),
          schedule_relationship |-> "SCHEDULED",
          arrival |-> [time |-> s.live_arrival,
                       uncertainty |-> IF s.confirmed THEN 0 ELSE 1],
          departure |-> [time |-> s.live_departure,
                         uncertainty |-> IF s.confirmed THEN 0 ELSE 1]]

TripDelay(trip, stops) == [class |-> "TripDelay", trip |-> trip, stops |-> stops]

parse_trip_delay(d) ==
    TripDelay(TripDate_parse(d.sid, d.od),
              [i \in 1..Len(d.st) |-> parse_stop_delay(d.st[i])])

trip_delay_parses(d) ==
    TripDate_parses(d) /\ \A i \in 1..Len(d.st) : stop_delay_parses(d.st[i])

TripDelay_as_json(t) ==
    [type |-> "delay",
     id |-> <<"D", "_">> \o isoformat(t.trip.start_date) \o <<"_">>
                \o IntToText(t.trip.trip_id),
     trip |-> TripDate_as_json(t.trip),
     stops |-> [i \in 1..Len(t.stops) |-> StopDelay_as_json(t.stops[i])]]

TripDelay_as_gtfs_rt(t) ==
    [id |-> <<"D", "_">> \o isoformat(t.trip.start_date) \o <<"_">>
                \o IntToText(t.trip.trip_id),
     trip_update |->
        [trip |-> TripDate_as_gtfs_rt(t.trip),
         stop_time_update |->
            [i \in 1..Len(t.stops) |-> StopDelay_as_gtfs_rt(t.stops[i])]]]

(***************************************************************************)
(* fact.py                                                                 *)
(***************************************************************************)
FactContainer(timestamp, fact_list) == [timestamp |-> timestamp, facts |-> fact_list]

\* max(a, b) of Python: the first argument unless the second is greater
Max(a, b) == IF b > a THEN b ELSE a

\* the merge that extends self.facts in place
merge_in_place(self, other) ==
    [result |-> FactContainer(Max(self.timestamp, other.timestamp),
                              self.facts \o other.facts),
     self |-> FactContainer(self.timestamp, self.facts \o other.facts),
     other |-> other]

\* FactContainer.merge: the container returned, and self and other after the call
merge(self, other) ==
    [result |-> FactContainer(Max(self.timestamp, other.timestamp),
                              self.facts \o other.facts),
     self |-> self,
     other |-> other]

\* the dispatch of Fact.as_json and Fact.as_gtfs_rt on the fact's class
Fact_as_json(f) ==
    IF f.class = "Alert" THEN Alert_as_json(f) ELSE TripDelay_as_json(f)

Fact_as_gtfs_rt(f) ==
    IF f.class = "Alert" THEN Alert_as_gtfs_rt(f) ELSE TripDelay_as_gtfs_rt(f)

FactContainer_as_json(c) ==
    [timestamp |-> c.timestamp,
     facts |-> [i \in 1..Len(c.facts) |-> Fact_as_json(c.facts[i])]]

FactContainer_as_gtfs_rt(c) ==
    [header |-> [gtfs_realtime_version |-> "2.0", incrementality |-> "FULL_DATASET",
                 timestamp |-> c.timestamp],
     entity |-> [i \in 1..Len(c.facts) |-> Fact_as_gtfs_rt(c.facts[i])]]

\* fetch_alerts after r.json(): None stands for an exception
fetch_alerts(data) ==
    IF \A i \in 1..Len(data.ds) : alert_parses(data.ds[i])
    THEN Some(FactContainer(data.ts, [i \in 1..Len(data.ds) |-> parse_alert(data.ds[i])]))
    ELSE None

\* fetch_delays without its test of the pagination flag
fetch_delays_unchecked(data) ==
    IF \A i \in 1..Len(data.tr) : trip_delay_parses(data.tr[i])
    THEN Some(FactContainer(data.ts,
                            [i \in 1..Len(data.tr) |-> parse_trip_delay(data.tr[i])]))
    ELSE None

\* fetch_delays after r.json(): None stands for an exception
fetch_delays(data) ==
    IF OrElse(data.pg.hn, FALSE)
    THEN None
    ELSE IF \A i \in 1..Len(data.tr) : trip_delay_parses(data.tr[i])
    THEN Some(FactContainer(data.ts,
                            [i \in 1..Len(data.tr) |-> parse_trip_delay(data.tr[i])]))
    ELSE None

(***************************************************************************)
(* apikey.py                                                               *)
(***************************************************************************)
Whitespace == {" ", "\n", "\t", "\r"}

RECURSIVE strip(_)
\* str.strip
strip(text) ==
    IF text = <<>> THEN text
    ELSE IF Head(text) \in Whitespace THEN strip(Tail(text))
    ELSE IF text[Len(text)] \in Whitespace THEN strip(SubSeq(text, 1, Len(text) - 1))
    ELSE text

\* get_apikey: None stands for the ValueError
get_apikey(env) ==
    LET from_env == env.PKP_PLK_APIKEY
        key == IF OrElse(from_env, <<>>) = <<>> /\ OrElse(env.PKP_PLK_APIKEY_FILE, <<>>) # <<>>
               THEN env.file_content
               ELSE OrElse(from_env, <<>>)
    IN  IF key = <<>> THEN None ELSE Some(strip(key))

(***************************************************************************)
(* app.py: Args, main and update_file.  A path is the list of the parts of *)
(* its file name: the stem, then the suffixes.                             *)
(***************************************************************************)
\* Path.with_suffix
with_suffix(path, suffix) ==
    IF Len(path) >= 2 THEN SubSeq(path, 1, Len(path) - 1) \o <<suffix>>
    ELSE path \o <<suffix>>

\* Args.get_json_path
get_json_path(a) == with_suffix(a.output, ".json")

\* the data written to dst itself
TmpPath_in_place(dst) == dst

\* dst.with_name(f".{dst.name}.tmp")
TmpPath(dst) == <<".">> \o dst \o <<".tmp">>

\* the paths main publishes to
OutputPaths(a) == {a.output} \cup (IF a.json THEN {get_json_path(a)} ELSE {})

\* the content of a file: some data, and whether all of it has been written
Content(data, complete) == [data |-> data, complete |-> complete]

\* the first argument of the first update_file call of main
FeedData(a, container) ==
    [format |-> IF a.human_readable THEN "text" ELSE "binary",
     message |-> FactContainer_as_gtfs_rt(container)]

\* the first argument of the second update_file call of main
JsonData(a, container) ==
    [format |-> IF a.human_readable THEN "indented" ELSE "compact",
     document |-> FactContainer_as_json(container)]

\* the destination and the data of the update_file call main is in
UpdateDst == IF mpc = "update_feed" THEN args.output ELSE get_json_path(args)

UpdateData ==
    IF mpc = "update_feed" THEN FeedData(args, facts[1]) ELSE JsonData(args, facts[1])

\* what an earlier run published
OldContent == Content([format |-> "old"], TRUE)

\* the files on disk when main starts: nothing, or an earlier run's output
InitialFiles(a) ==
    {EmptyDict, [q \in OutputPaths(a) |-> OldContent]}

\* main: apikey = get_apikey()
GetApikey ==
    /\ mpc = "get_apikey"
    /\ apikey' = get_apikey(environ)
    /\ mpc' = IF get_apikey(environ) = None THEN "failed" ELSE "fetch_alerts"
    /\ UNCHANGED <<args, environ, alerts_response, delays_response, alerts, delays,
                   facts, upc, fs, loader_vars>>

\* main: fetch_alerts(apikey), whose request fails
FetchAlertsHttpError ==
    /\ mpc = "fetch_alerts"
    /\ mpc' = "failed"
    /\ UNCHANGED <<args, environ, apikey, alerts_response, delays_response, alerts,
                   delays, facts, upc, fs, loader_vars>>

\* main: fetch_alerts(apikey), whose request is answered
FetchAlerts ==
    /\ mpc = "fetch_alerts"
    /\ \E data \in AlertResponses :
          /\ alerts_response' = Some(data)
          /\ alerts' = fetch_alerts(data)
          /\ mpc' = IF fetch_alerts(data) = None THEN "failed" ELSE "fetch_delays"
    /\ UNCHANGED <<args, environ, apikey, delays_response, delays, facts, upc, fs,
                   loader_vars>>

\* main: fetch_delays(apikey), whose request fails
FetchDelaysHttpError ==
    /\ mpc = "fetch_delays"
    /\ mpc' = "failed"
    /\ UNCHANGED <<args, environ, apikey, alerts_response, delays_response, alerts,
                   delays, facts, upc, fs, loader_vars>>

\* main: fetch_delays(apikey), whose request is answered
FetchDelays ==
    /\ mpc = "fetch_delays"
    /\ \E data \in DelayResponses :
          /\ delays_response' = Some(data)
          /\ delays' = fetch_delays(data)
          /\ mpc' = IF fetch_delays(data) = None THEN "failed" ELSE "merge"
    /\ UNCHANGED <<args, environ, apikey, alerts_response, alerts, facts, upc, fs,
                   loader_vars>>

\* main: facts = <alerts>.merge(<delays>)
Merge ==
    /\ mpc = "merge"
    /\ LET m == merge(alerts[1], delays[1])
       IN  /\ facts' = Some(m.result)
           /\ alerts' = Some(m.self)
           /\ delays' = Some(m.other)
    /\ mpc' = "update_feed"
    /\ UNCHANGED <<args, environ, apikey, alerts_response, delays_response, upc, fs,
                   loader_vars>>

\* update_file: tmp is opened for writing, which creates or truncates it
UpdateFileOpen ==
    /\ mpc \in {"update_feed", "update_json"}
    /\ upc = "open"
    /\ fs' = Put(fs, TmpPath(UpdateDst), Content(UpdateData, FALSE))
    /\ upc' = "write"
    /\ UNCHANGED <<mpc, args, environ, apikey, alerts_response, delays_response, alerts,
                   delays, facts, loader_vars>>

\* update_file: the data is written to tmp and tmp is closed
UpdateFileWrite ==
    /\ mpc \in {"update_feed", "update_json"}
    /\ upc = "write"
    /\ fs' = Put(fs, TmpPath(UpdateDst), Content(UpdateData, TRUE))
    /\ upc' = "rename"
    /\ UNCHANGED <<mpc, args, environ, apikey, alerts_response, delays_response, alerts,
                   delays, facts, loader_vars>>

\* update_file: tmp.rename(dst), after which main goes on or returns
UpdateFileRename ==
    /\ mpc \in {"update_feed", "update_json"}
    /\ upc = "rename"
    /\ fs' = [q \in (DOMAIN fs \cup {UpdateDst}) \ {TmpPath(UpdateDst)} |->
                 IF q = UpdateDst THEN fs[TmpPath(UpdateDst)] ELSE fs[q]]
    /\ upc' = "open"
    /\ mpc' = IF mpc = "update_feed" /\ args.json THEN "update_json" ELSE "done"
    /\ UNCHANGED <<args, environ, apikey, alerts_response, delays_response, alerts,
                   delays, facts, loader_vars>>

\* update_file: a call of the file system raises OSError
UpdateFileError ==
    /\ mpc \in {"update_feed", "update_json"}
    /\ mpc' = "failed"
    /\ UNCHANGED <<args, environ, apikey, alerts_response, delays_response, alerts,
                   delays, facts, upc, fs, loader_vars>>

InitLoader(files) ==
    /\ pc = "feed_info"
    /\ feed_info \in files
    /\ calendar_rows = <<>>
    /\ trips_rows = <<>>
    /\ stop_times_rows = <<>>
    /\ valid_operating_dates = None
    /\ services = EmptyDict
    /\ by_order = EmptyDict
    /\ trip_id_to_keys = EmptyDict
    /\ schedules = None
    /\ probe = None

\* main does not build the index: load_from_gtfs is not called
LoaderIdle ==
    /\ pc = "not_called"
    /\ feed_info = <<>>
    /\ calendar_rows = <<>>
    /\ trips_rows = <<>>
    /\ stop_times_rows = <<>>
    /\ valid_operating_dates = None
    /\ services = EmptyDict
    /\ by_order = EmptyDict
    /\ trip_id_to_keys = EmptyDict
    /\ schedules = None
    /\ probe = None

MainIdle ==
    /\ mpc = "not_called"
    /\ args = None
    /\ environ = None
    /\ apikey = None
    /\ alerts_response = None
    /\ delays_response = None
    /\ alerts = None
    /\ delays = None
    /\ facts = None
    /\ upc = "open"
    /\ fs = EmptyDict

InitMain ==
    /\ LoaderIdle
    /\ mpc = "get_apikey"
    /\ args \in ArgsPool
    /\ environ \in EnvironPool
    /\ apikey = None
    /\ alerts_response = None
    /\ delays_response = None
    /\ alerts = None
    /\ delays = None
    /\ facts = None
    /\ upc = "open"
    /\ fs \in InitialFiles(args)

NextMain ==
    \/ GetApikey
    \/ FetchAlertsHttpError
    \/ FetchAlerts
    \/ FetchDelaysHttpError
    \/ FetchDelays
    \/ Merge
    \/ UpdateFileOpen
    \/ UpdateFileWrite
    \/ UpdateFileRename
    \/ UpdateFileError

SpecMain == InitMain /\ [][NextMain]_vars

Init == InitLoader(FeedFiles) /\ MainIdle

\* the index build over every calendar, with few stop times
Next ==
    \/ LoadFeedDates
    \/ LoadServicesRow(CalendarPool)
    \/ LoadServicesEnd
    \/ LoadTripsRow
    \/ LoadTripsEnd
    \/ LoadStopTimesRow(StopTimePoolSmall)
    \/ LoadStopTimesEnd

Spec == Init /\ [][Next]_vars

\* the index build over every stop time, with a small calendar
NextStopTimes ==
    \/ LoadFeedDates
    \/ LoadServicesRow(CalendarPoolSmall)
    \/ LoadServicesEnd
    \/ LoadTripsRow
    \/ LoadTripsEnd
    \/ LoadStopTimesRow(StopTimePool)
    \/ LoadStopTimesEnd

SpecStopTimes == Init /\ [][NextStopTimes]_vars

\* the date range alone: _load_feed_dates, then membership tests
InitFeed == InitLoader(FeedRangeFiles) /\ MainIdle

NextFeed == LoadFeedDates \/ Contains

SpecFeed == InitFeed /\ [][NextFeed]_vars

(***************************************************************************)
(* Vocabulary of the properties, independent of the operators above.       *)
(***************************************************************************)
RECURSIVE DaysBeforeMonth(_, _)
DaysBeforeMonth(y, m) ==
    IF m = 1 THEN 0 ELSE DaysBeforeMonth(y, m - 1) + DaysInMonth(y, m - 1)

\* the number of a day, counted from 0001-01-01 as day 1
DayNumber(d) ==
    365 * (d.year - 1) + ((d.year - 1) \div 4) - ((d.year - 1) \div 100)
        + ((d.year - 1) \div 400) + DaysBeforeMonth(d.year, d.month) + d.day

\* the shift a service_id ends with: <sign><digits>D, 0 without such an ending
SuffixShift(service_id) ==
    LET n == Len(service_id)
        signs == {i \in 1..(n - 2) :
                     /\ service_id[i] \in {"+", "-"}
                     /\ \A k \in (i + 1)..(n - 1) : service_id[k] \in Digits
                     /\ service_id[n] = "D"}
    IN  IF signs = {} THEN 0
        ELSE LET i == CHOOSE i \in signs : TRUE
                 magnitude == DecimalValue(SubSeq(service_id, i + 1, n - 1))
             IN  IF service_id[i] = "-" THEN 0 - magnitude ELSE magnitude

EndsWith(text, suffix) ==
    /\ Len(text) >= Len(suffix)
    /\ SubSeq(text, Len(text) - Len(suffix) + 1, Len(text)) = suffix

\* the splits of a trip_id as <digits>_<digits><rest>: the "_" is at a, the rest
\* starts at b, and both runs of digits are as long as they can be
IdPrefixes(trip_id) ==
    {ab \in (2..Len(trip_id)) \X (4..(Len(trip_id) + 1)) :
        /\ ab[1] + 2 <= ab[2]
        /\ \A k \in 1..(ab[1] - 1) : trip_id[k] \in Digits
        /\ trip_id[ab[1]] = "_"
        /\ \A k \in (ab[1] + 1)..(ab[2] - 1) : trip_id[k] \in Digits
        /\ (ab[2] <= Len(trip_id) => trip_id[ab[2]] \notin Digits)}

\* a trip_id begins with <digits>_<digits>
HasIdPrefix(trip_id) == IdPrefixes(trip_id) # {}

\* the schedule and order numbers such a trip_id begins with
PrefixIds(trip_id) ==
    LET ab == CHOOSE ab \in IdPrefixes(trip_id) : TRUE
    IN  <<DecimalValue(SubSeq(trip_id, 1, ab[1] - 1)),
          DecimalValue(SubSeq(trip_id, ab[1] + 1, ab[2] - 1))>>

\* the day number of the operating date of a calendar_dates.txt row
RowOperatingDay(row) == DayNumber(from_ymd_str(row.date)) - SuffixShift(row.service_id)

\* a day number lies within a range of dates, both ends included
DayWithin(n, range) == DayNumber(range.start) <= n /\ n <= DayNumber(range.end)

LoaderRunning == pc \in {"feed_info", "calendar_dates", "trips", "stop_times"}

(***************************************************************************)
(* C1.  Every OrderKey of by_order, while the index is built and in the    *)
(* Schedules value returned, has its operating_date within                 *)
(* valid_operating_dates, both ends included; every TripDate of the index  *)
(* comes from a calendar_dates.txt row whose operating date is within the  *)
(* range, so a row outside it contributes nothing; and such a row never    *)
(* fails the build (the build fails on a trips.txt or stop_times.txt row   *)
(* only).                                                                  *)
(***************************************************************************)
EntryJustified(K, T) ==
    \E r \in 1..Len(calendar_rows), t \in 1..Len(trips_rows) :
        /\ DayWithin(RowOperatingDay(calendar_rows[r]), valid_operating_dates[1])
        /\ trips_rows[t].trip_id = T.trip_id
        /\ trips_rows[t].service_id = calendar_rows[r].service_id
        /\ T.start_date = from_ymd_str(calendar_rows[r].date)
        /\ DayNumber(K.operating_date) = RowOperatingDay(calendar_rows[r])

IndexWithinRange(index, range) ==
    \A K \in DOMAIN index :
        /\ DayWithin(DayNumber(K.operating_date), range)
        /\ \A i \in 1..Len(index[K].all) : EntryJustified(K, index[K].all[i])

C1_OperatingDatesWithinRange ==
    /\ by_order # EmptyDict => IndexWithinRange(by_order, valid_operating_dates[1])
    /\ schedules # None =>
          IndexWithinRange(schedules[1].by_order, schedules[1].valid_operating_dates)
    /\ pc = "failed" => trips_rows # <<>>

C1_Witness ==
    /\ pc = "done"
    /\ schedules[1].by_order # EmptyDict
    /\ \E r \in 1..Len(calendar_rows) :
          ~DayWithin(RowOperatingDay(calendar_rows[r]), valid_operating_dates[1])

(***************************************************************************)
(* C2.  Each TripDate appended to by_order[K].all while a trips.txt row is *)
(* read carries that row's trip_id, and K.operating_date is its start_date *)
(* minus the shift the row's service_id ends with (0 without one): with    *)
(* "-1D" the operating date is the day after the start date, with "+1D"    *)
(* the day before.  Entries already stored are never changed, and the      *)
(* index returned is the one built.                                        *)
(***************************************************************************)
NewEntryObeysShift(K, T, row) ==
    /\ T.trip_id = row.trip_id
    /\ DayNumber(K.operating_date) = DayNumber(T.start_date) - SuffixShift(row.service_id)
    /\ EndsWith(row.service_id, <<"-", "1", "D">>) =>
          K.operating_date = NextDay(T.start_date)
    /\ EndsWith(row.service_id, <<"+", "1", "D">>) =>
          NextDay(K.operating_date) = T.start_date
    /\ SuffixShift(row.service_id) = 0 => K.operating_date = T.start_date

C2_Step ==
    /\ \A K \in DOMAIN by_order :
          /\ K \in DOMAIN by_order'
          /\ Len(by_order[K].all) <= Len(by_order'[K].all)
          /\ SubSeq(by_order'[K].all, 1, Len(by_order[K].all)) = by_order[K].all
    /\ \A K \in DOMAIN by_order' :
          \A i \in 1..Len(by_order'[K].all) :
              (K \notin DOMAIN by_order \/ i > Len(by_order[K].all)) =>
                  /\ trips_rows' # trips_rows
                  /\ NewEntryObeysShift(K, by_order'[K].all[i],
                                        trips_rows'[Len(trips_rows')])
    /\ schedules' # schedules => schedules'[1].by_order = by_order

C2_OperatingDateIsStartDateMinusShift == [][C2_Step]_vars

C2_Witness ==
    /\ pc = "done"
    /\ \E K \in DOMAIN schedules[1].by_order :
          \E i \in 1..Len(schedules[1].by_order[K].all) :
              K.operating_date = NextDay(schedules[1].by_order[K].all[i].start_date)
    /\ \E K \in DOMAIN schedules[1].by_order :
          \E i \in 1..Len(schedules[1].by_order[K].all) :
              NextDay(K.operating_date) = schedules[1].by_order[K].all[i].start_date

(***************************************************************************)
(* C3.  Once a trips.txt row whose trip_id does not begin with             *)
(* <digits>_<digits> has been read, load_from_gtfs has failed and returns  *)
(* no Schedules value, whatever the row's service and whatever was         *)
(* registered before it.                                                   *)
(***************************************************************************)
C3_MalformedTripIdFailsBuild ==
    (\E t \in 1..Len(trips_rows) : ~HasIdPrefix(trips_rows[t].trip_id)) =>
        pc = "failed" /\ schedules = None

C3_Witness ==
    /\ pc = "failed"
    /\ Len(trips_rows) = 2
    /\ HasIdPrefix(trips_rows[1].trip_id)
    /\ by_order # EmptyDict
    /\ ~HasIdPrefix(trips_rows[2].trip_id)
    /\ trips_rows[2].service_id \notin DOMAIN services

(***************************************************************************)
(* C9.  by_order holds one Trips aggregate for each OrderKey formed from a *)
(* trips.txt row and a retained date pair of the row's service, and for no *)
(* other key; by_order[K].all lists TripDate(trip_id, start_date) of       *)
(* exactly the combinations whose key is K, in trips.txt row order and,    *)
(* within a row, in date-pair order.  Rows that share a key are all kept.  *)
(***************************************************************************)
\* the combinations of one trips.txt row, in date-pair order
RowEntries(row) ==
    LET pairs == Get(services, row.service_id, <<>>)
    IN  IF HasIdPrefix(row.trip_id)
        THEN [j \in 1..Len(pairs) |->
                 [key |-> OrderKey(PrefixIds(row.trip_id)[1], PrefixIds(row.trip_id)[2],
                                   pairs[j].operating_date),
                  trip |-> TripDate(row.trip_id, pairs[j].start_date)]]
        ELSE <<>>

RECURSIVE AllEntries(_)
\* the combinations of all the rows, in row order
AllEntries(rows) ==
    IF rows = <<>> THEN <<>> ELSE RowEntries(Head(rows)) \o AllEntries(Tail(rows))

RECURSIVE TripsOfKey(_, _)
\* the trips of the combinations whose key is K, in order
TripsOfKey(entries, K) ==
    IF entries = <<>> THEN <<>>
    ELSE (IF Head(entries).key = K THEN <<Head(entries).trip>> ELSE <<>>)
             \o TripsOfKey(Tail(entries), K)

IndexRegistersExactly(index, entries) ==
    /\ DOMAIN index = {entries[i].key : i \in 1..Len(entries)}
    /\ \A K \in DOMAIN index : index[K].all = TripsOfKey(entries, K)

C9_TripRegistrationExact ==
    /\ IndexRegistersExactly(by_order, AllEntries(trips_rows))
    /\ schedules # None =>
          IndexRegistersExactly(schedules[1].by_order, AllEntries(trips_rows))

C9_Witness ==
    /\ pc = "done"
    /\ \E K \in DOMAIN schedules[1].by_order :
          /\ Len(schedules[1].by_order[K].all) = 2
          /\ schedules[1].by_order[K].all[1].trip_id = TripRail
          /\ schedules[1].by_order[K].all[2].trip_id = TripBus

(***************************************************************************)
(* C10.  While stop_times.txt is read and after the build, for every key K *)
(* and order number n, by_order[K].by_order_number holds n exactly when a  *)
(* stop_times.txt row read so far has plk_order n and a trip_id the        *)
(* reverse index resolves to K, and then it holds the StopTime of the last *)
(* such row (with the TripDate of the last pair of that row's trip_id that *)
(* leads to K), whichever trip_id sharing K the row belongs to.            *)
(***************************************************************************)
\* the positions in the reverse index entry of a row's trip_id that lead to K
PairsLeadingTo(row, K) ==
    {j \in 1..Len(Get(trip_id_to_keys, row.trip_id, <<>>)) :
        trip_id_to_keys[row.trip_id][j].live = K}

\* the rows read so far that store under order number n of key K
RowsStoring(K, n) ==
    {i \in 1..Len(stop_times_rows) :
        /\ PairsLeadingTo(stop_times_rows[i], K) # {}
        /\ IsInt(stop_times_rows[i].plk_order)
        /\ ParseInt(stop_times_rows[i].plk_order) = n}

Greatest(S) == CHOOSE x \in S : \A y \in S : y <= x

OrderNumbers == 0..9

LastWriteWins(index) ==
    \A K \in DOMAIN index :
        /\ DOMAIN index[K].by_order_number \subseteq OrderNumbers
        /\ \A n \in OrderNumbers :
              LET rows == RowsStoring(K, n)
              IN  /\ n \in DOMAIN index[K].by_order_number <=> rows # {}
                  /\ rows # {} =>
                        LET row == stop_times_rows[Greatest(rows)]
                            pair == trip_id_to_keys[row.trip_id][
                                        Greatest(PairsLeadingTo(row, K))]
                        IN  index[K].by_order_number[n] =
                                StopTime(pair.gtfs, ParseInt(row.stop_sequence),
                                         row.stop_id)

C10_StopTimesLastWriteWins ==
    /\ pc # "failed" => LastWriteWins(by_order)
    /\ schedules # None => LastWriteWins(schedules[1].by_order)

C10_Witness ==
    /\ pc = "done"
    /\ Len(stop_times_rows) = 2
    /\ stop_times_rows[1].trip_id = TripRail
    /\ stop_times_rows[2].trip_id = TripBus
    /\ \E K \in DOMAIN schedules[1].by_order :
          /\ RowsStoring(K, 1) = {1, 2}
          /\ schedules[1].by_order[K].by_order_number[1].trip.trip_id = TripBus
          /\ schedules[1].by_order[K].by_order_number[1].stop_id = <<"B">>

(***************************************************************************)
(* C8.  valid_operating_dates starts the day before feed_start_date of the *)
(* first row of feed_info.txt and ends on its feed_end_date: a date is     *)
(* admitted exactly when it is no earlier than the day before the declared *)
(* first day and no later than the declared last day.  The feed            *)
(* 2025-06-01 .. 2025-06-30 gives 2025-05-31 .. 2025-06-30.                *)
(***************************************************************************)
C8_ValidOperatingDatesRange ==
    valid_operating_dates # None =>
        LET range == valid_operating_dates[1]
            first == DayNumber(from_ymd_str(feed_info[1].feed_start_date))
            last == DayNumber(from_ymd_str(feed_info[1].feed_end_date))
        IN  /\ DayNumber(range.start) = first - 1
            /\ DayNumber(range.end) = last
            /\ feed_info[1] = FeedRow(D0601, D0630) =>
                  range = BoundedDateRange(MkDate(2025, 5, 31), MkDate(2025, 6, 30))
            /\ probe # None =>
                  (probe[1].admitted <=>
                      first - 1 <= DayNumber(probe[1].date)
                          /\ DayNumber(probe[1].date) <= last)

C8_Witness ==
    /\ probe # None
    /\ Len(feed_info) = 2
    /\ probe[1].admitted
    /\ DayNumber(probe[1].date) + 1 = DayNumber(from_ymd_str(feed_info[1].feed_start_date))

(***************************************************************************)
(* C4.  The step of main that merges the two containers returns one whose  *)
(* timestamp is the greater of the two timestamps and whose facts are the  *)
(* facts of the first followed by the facts of the second, each in its     *)
(* order, and leaves both containers as they were.                         *)
(***************************************************************************)
C4_Step ==
    (mpc = "merge" /\ mpc' # "merge") =>
        LET a == alerts[1]
            b == delays[1]
            r == facts'[1]
        IN  /\ r.timestamp >= a.timestamp
            /\ r.timestamp >= b.timestamp
            /\ r.timestamp \in {a.timestamp, b.timestamp}
            /\ Len(r.facts) = Len(a.facts) + Len(b.facts)
            /\ \A i \in 1..Len(a.facts) : r.facts[i] = a.facts[i]
            /\ \A j \in 1..Len(b.facts) : r.facts[Len(a.facts) + j] = b.facts[j]
            /\ alerts' = alerts
            /\ delays' = delays

C4_MergeConcatenates == [][C4_Step]_vars

C4_Witness ==
    /\ facts # None
    /\ Len(alerts[1].facts) = 1
    /\ Len(delays[1].facts) = 2
    /\ delays[1].facts[1] # delays[1].facts[2]
    /\ alerts[1].timestamp > delays[1].timestamp
    /\ Len(facts[1].facts) = 3

(***************************************************************************)
(* C5.  In the JSON document and in the feed message of the merged         *)
(* container no two facts carry the same id.                               *)
(***************************************************************************)
C5_EntityIdsUnique ==
    facts # None =>
        LET document == FactContainer_as_json(facts[1])
            message == FactContainer_as_gtfs_rt(facts[1])
        IN  /\ \A i, k \in 1..Len(document.facts) :
                  i # k => document.facts[i].id # document.facts[k].id
            /\ \A i, k \in 1..Len(message.entity) :
                  i # k => message.entity[i].id # message.entity[k].id

(***************************************************************************)
(* C6.  Once fetch_delays has received an answer whose pg.hn is true, it   *)
(* has raised: there is no container of delays and main has failed.  When  *)
(* there is a container of delays, the flag was not set, its timestamp is  *)
(* the answer's ts and its facts are one TripDelay for each record of tr,  *)
(* in order.                                                               *)
(***************************************************************************)
FlagSet(data) == data.pg.hn = Some(TRUE)

DelayOfRecord(delay, record) ==
    /\ delay.class = "TripDelay"
    /\ delay.trip.trip_id = record.sid
    /\ isoformat(delay.trip.start_date) = SubSeq(record.od, 1, 10)
    /\ Len(delay.stops) = Len(record.st)
    /\ \A k \in 1..Len(record.st) : delay.stops[k].stop_id = record.st[k].id

C6_PaginatedDelaysRejected ==
    /\ (delays_response # None /\ FlagSet(delays_response[1])) =>
          delays = None /\ facts = None /\ mpc = "failed"
    /\ delays # None =>
          /\ delays_response # None
          /\ ~FlagSet(delays_response[1])
          /\ delays[1].timestamp = delays_response[1].ts
          /\ Len(delays[1].facts) = Len(delays_response[1].tr)
          /\ \A i \in 1..Len(delays_response[1].tr) :
                DelayOfRecord(delays[1].facts[i], delays_response[1].tr[i])

C6_Witness ==
    /\ delays_response # None
    /\ FlagSet(delays_response[1])
    /\ Len(delays_response[1].tr) = 2
    /\ \A i \in 1..2 : trip_delay_parses(delays_response[1].tr[i])
    /\ mpc = "failed"

(***************************************************************************)
(* C7.  Until both fetches and the merge have succeeded the files are the  *)
(* ones main found; each change of the file system happens inside          *)
(* update_file after the merge; a published path (the feed file and, with  *)
(* --json, the JSON file) changes only by receiving, complete, the data    *)
(* update_file was called with; and a published path never holds          *)
(* incompletely written data.                                              *)
(***************************************************************************)
Differs(q) ==
    \/ (q \in DOMAIN fs) # (q \in DOMAIN fs')
    \/ q \in DOMAIN fs /\ q \in DOMAIN fs' /\ fs[q] # fs'[q]

C7_State ==
    /\ (alerts = None \/ delays = None \/ facts = None) => fs \in InitialFiles(args)
    /\ \A q \in OutputPaths(args) \cap DOMAIN fs :
          /\ fs[q].complete
          /\ \/ fs[q] = OldContent
             \/ /\ facts # None
                /\ fs[q].data \in {FeedData(args, facts[1]), JsonData(args, facts[1])}

C7_Step ==
    /\ fs' # fs =>
          /\ alerts # None /\ delays # None /\ facts # None
          /\ mpc \in {"update_feed", "update_json"}
    /\ \A q \in OutputPaths(args) :
          Differs(q) =>
              /\ q \in DOMAIN fs'
              /\ \/ /\ mpc = "update_feed" /\ q = args.output
                    /\ fs'[q] = Content(FeedData(args, facts[1]), TRUE)
                 \/ /\ mpc = "update_json" /\ q = get_json_path(args)
                    /\ fs'[q] = Content(JsonData(args, facts[1]), TRUE)

C7_NoPartialPublication == [](C7_State) /\ [][C7_Step]_vars

C7_Witness ==
    /\ mpc = "failed"
    /\ delays_response # None
    /\ FlagSet(delays_response[1])
    /\ args.json
    /\ fs = [q \in OutputPaths(args) |-> OldContent]

\* a run that stops inside update_file: the data half written, the feed file untouched
C7_WitnessWriteFails ==
    /\ mpc = "failed"
    /\ facts # None
    /\ upc = "write"
    /\ {TmpPath(args.output), args.output} \subseteq DOMAIN fs
    /\ ~fs[TmpPath(args.output)].complete
    /\ fs[args.output] = OldContent

(***************************************************************************)
(* C11.  Every StopTime stored in by_order[K].by_order_number has a trip   *)
(* that is one of the TripDates of by_order[K].all of the same key K, in   *)
(* the index under construction and in the built one.  A stop_times.txt    *)
(* row whose trip_id no trips.txt row registered (no row has that trip_id, *)
(* or the services of the rows that have it kept no date pair) leaves      *)
(* by_order and the reverse index as they were and the build goes on,      *)
(* whatever its stop_sequence and plk_order hold.                          *)
(***************************************************************************)
StopTimesBelong(index) ==
    \A K \in DOMAIN index :
        \A n \in DOMAIN index[K].by_order_number :
            \E i \in 1..Len(index[K].all) :
                index[K].all[i] = index[K].by_order_number[n].trip

\* some trips.txt row read has this trip_id and a service that kept a date pair
Registered(trip_id) ==
    \E i \in 1..Len(trips_rows) :
        /\ trips_rows[i].trip_id = trip_id
        /\ \E s \in DOMAIN services :
              s = trips_rows[i].service_id /\ Len(services[s]) > 0

C11_State ==
    /\ StopTimesBelong(by_order)
    /\ schedules # None => StopTimesBelong(schedules[1].by_order)

C11_Step ==
    (pc = "stop_times" /\ Len(stop_times_rows') = Len(stop_times_rows) + 1) =>
        LET row == stop_times_rows'[Len(stop_times_rows')]
        IN  ~Registered(row.trip_id) =>
                /\ by_order' = by_order
                /\ trip_id_to_keys' = trip_id_to_keys
                /\ pc' = "stop_times"

C11_StopTimesBelongAndUnknownRowsIgnored == [](C11_State) /\ [][C11_Step]_vars

\* a built index holding a stop time, after a row of a trip whose service
\* kept no date pair and whose plk_order is no number
C11_Witness ==
    /\ pc = "done"
    /\ \E i \in 1..Len(trips_rows) : trips_rows[i].trip_id = TripOther
    /\ ~Registered(TripOther)
    /\ Len(stop_times_rows) = 2
    /\ stop_times_rows[2].trip_id = TripOther
    /\ ~IsInt(stop_times_rows[2].plk_order)
    /\ \E K \in DOMAIN schedules[1].by_order :
          DOMAIN schedules[1].by_order[K].by_order_number # {}

\* the same after a row of a trip_id no trips.txt row has
C11_WitnessUnknownTrip ==
    /\ pc = "done"
    /\ Len(stop_times_rows) = 2
    /\ stop_times_rows[2].trip_id = TripUnknown
    /\ ~IsInt(stop_times_rows[2].stop_sequence)
    /\ \E K \in DOMAIN schedules[1].by_order :
          DOMAIN schedules[1].by_order[K].by_order_number # {}

====
